---- MODULE Spec2Model ----
(***************************************************************************)
(* Model of crewai_course_review/main.py: the repository fetch, the two    *)
(* parsers (parse_documentation, parse_code), the task-building loop of    *)
(* ingest_into_crewai, the sequential crew run and main's reporting.       *)
(*                                                                         *)
(* Text is a sequence of one-character strings.  A Python dict is the      *)
(* sequence of its <<key, value>> items in insertion order.  A Python      *)
(* value that may be None is a record with a tag.                          *)
(***************************************************************************)
EXTENDS Integers, Sequences, FiniteSets, TLC

VARIABLES
    stage,          \* position of main: Idle .. Completed | Aborted
    responses,      \* status codes of the HTTP calls made so far, in order
    repo_contents,  \* fetch_github_content: the listing (response.json())
    idx,            \* position of the loop in progress (download, then classification)
    files_content,  \* fetch_github_content: files downloaded so far
    staging,        \* destination_directory on disk: name -> content
    contents,       \* main: the value fetch_github_content returned
    parsed_data,    \* main: classified files
    tasks,          \* ingest_into_crewai: the task list given to the Crew
    outputs,        \* the crew run: results of the tasks executed so far
    result,         \* main: the value ingest_into_crewai returned
    printed,        \* messages printed so far, in order
    doc_content,    \* argument of a direct parse_documentation call
    parsed_content, \* its return value
    code_content,   \* argument of a direct parse_code call
    parsed_code     \* its return value

vars == <<stage, responses, repo_contents, idx, files_content, staging,
          contents, parsed_data, tasks, outputs, result, printed,
          doc_content, parsed_content, code_content, parsed_code>>

pipelineVars == <<stage, responses, repo_contents, idx, files_content, staging,
                  contents, parsed_data, tasks, outputs, result, printed>>

parserVars == <<doc_content, parsed_content, code_content, parsed_code>>

----------------------------------------------------------------------------
(* Bounds of the model *)

MaxTextLen == 8     \* longest text given to parse_documentation directly
MaxNodes == 3       \* most syntax-tree nodes below the Module node
MaxFiles == 3       \* most entries of a repository listing

----------------------------------------------------------------------------
(* Python values *)

Unset == [tag |-> "unset", val |-> <<>>]
PyNone == [tag |-> "None", val |-> <<>>]
PyVal(v) == [tag |-> "value", val |-> v]

\* bool(v) for None, a str, a list or a dict
Truthy(v) == v.tag = "value" /\ Len(v.val) > 0

\* d[k] = v on a dict: an existing key keeps its place, a new key goes last
DictSet(d, k, v) ==
    IF \E i \in 1..Len(d) : d[i][1] = k
    THEN [i \in 1..Len(d) |-> IF d[i][1] = k THEN <<k, v>> ELSE d[i]]
    ELSE Append(d, <<k, v>>)

DictKeys(d) == [i \in 1..Len(d) |-> d[i][1]]

DictHas(d, k) == \E i \in 1..Len(d) : d[i][1] = k

DictGet(d, k) == d[CHOOSE i \in 1..Len(d) : d[i][1] = k][2]

----------------------------------------------------------------------------
(* str operations used by parse_documentation *)

Whitespace == {" ", "\t", "\n", "\r", "\f"}

\* s.split("\n")
RECURSIVE SplitLines(_, _, _)
SplitLines(s, i, cur) ==
    IF i > Len(s) THEN <<cur>>
    ELSE IF s[i] = "\n" THEN <<cur>> \o SplitLines(s, i + 1, <<>>)
    ELSE SplitLines(s, i + 1, Append(cur, s[i]))

Split(s) == SplitLines(s, 1, <<>>)

\* "\n".join(lines)
RECURSIVE Join(_)
Join(lines) ==
    IF Len(lines) = 0 THEN <<>>
    ELSE IF Len(lines) = 1 THEN lines[1]
    ELSE lines[1] \o <<"\n">> \o Join(Tail(lines))

\* s.lstrip(chars)
RECURSIVE LStrip(_, _)
LStrip(s, chars) ==
    IF Len(s) > 0 /\ s[1] \in chars THEN LStrip(Tail(s), chars) ELSE s

\* s.rstrip(chars)
RECURSIVE RStrip(_, _)
RStrip(s, chars) ==
    IF Len(s) > 0 /\ s[Len(s)] \in chars
    THEN RStrip(SubSeq(s, 1, Len(s) - 1), chars) ELSE s

\* s.strip(chars)
Strip(s, chars) == RStrip(LStrip(s, chars), chars)

\* re.match(r"^#+\s", line)
MatchesHeader(line) ==
    LET rest == LStrip(line, {"#"})
    IN  /\ Len(line) > 0 /\ line[1] = "#"
        /\ Len(rest) > 0 /\ rest[1] \in Whitespace

\* line.strip("# ").strip()
HeaderKey(line) == Strip(Strip(line, {"#", " "}), Whitespace)

\* `if current_header:` on a header that is None or a str
HeaderOpen(h) == Truthy(h)

\* one iteration of the loop over the lines; st is the three locals
DocStep(st, line) ==
    IF MatchesHeader(line)
    THEN [parsed |-> IF HeaderOpen(st.current_header)
                     THEN DictSet(st.parsed, st.current_header.val,
                                  Join(st.current_text))
                     ELSE st.parsed,
          current_header |-> PyVal(HeaderKey(line)),
          current_text |-> <<>>]
    ELSE [st EXCEPT !.current_text = Append(@, line)]

RECURSIVE DocLoop(_, _)
DocLoop(st, lines) ==
    IF Len(lines) = 0 THEN st
    ELSE DocLoop(DocStep(st, Head(lines)), Tail(lines))

parse_documentation(text) ==
    LET st == DocLoop([parsed |-> <<>>, current_header |-> PyNone,
                       current_text |-> <<>>], Split(text))
    IN  IF HeaderOpen(st.current_header)
        THEN DictSet(st.parsed, st.current_header.val, Join(st.current_text))
        ELSE st.parsed

----------------------------------------------------------------------------
(* parse_code.  A source text is modelled by what ast.parse makes of it:     *)
(* a SyntaxError, or a syntax tree given as the sequence of its nodes below   *)
(* the Module node in source (pre-)order, each with its depth in the tree.    *)
(* The Module node is node 0 at depth 0.  A definition's docstring            *)
(* (ast.get_docstring) is kept on its node.                                   *)

NodeDepth(nodes, i) == IF i = 0 THEN 0 ELSE nodes[i].depth

\* ast.iter_child_nodes(node): the direct children, in source order
IsChild(nodes, i, j) ==
    /\ j > i
    /\ nodes[j].depth = NodeDepth(nodes, i) + 1
    /\ \A k \in (i + 1)..j : nodes[k].depth > NodeDepth(nodes, i)

RECURSIVE ChildrenFrom(_, _, _)
ChildrenFrom(nodes, i, j) ==
    IF j > Len(nodes) THEN <<>>
    ELSE IF IsChild(nodes, i, j) THEN <<j>> \o ChildrenFrom(nodes, i, j + 1)
    ELSE ChildrenFrom(nodes, i, j + 1)

iter_child_nodes(nodes, i) == ChildrenFrom(nodes, i, i + 1)

\* isinstance(node, (ast.FunctionDef, ast.ClassDef))
IsRecordedDef_FunctionsOnly(node) == node.kind = "FunctionDef"
IsRecordedDef(node) == node.kind \in {"FunctionDef", "ClassDef"}

\* the entry stored for a definition node
SymbolInfo(node) ==
    [type |-> IF node.kind = "FunctionDef" THEN "Function" ELSE "Class",
     docstring |-> node.doc]

\* the body of the loop over ast.walk(tree)
VisitNode(acc, nodes, i) ==
    IF i > 0 /\ IsRecordedDef(nodes[i])
    THEN DictSet(acc, nodes[i].name, SymbolInfo(nodes[i]))
    ELSE acc

\* ast.walk: todo is a deque; popleft, then extend with the children
WalkTodo_DepthFirst(todo, nodes) == iter_child_nodes(nodes, Head(todo)) \o Tail(todo)
WalkTodo(todo, nodes) == Tail(todo) \o iter_child_nodes(nodes, Head(todo))

RECURSIVE WalkLoop(_, _, _)
WalkLoop(nodes, todo, acc) ==
    IF Len(todo) = 0 THEN acc
    ELSE WalkLoop(nodes, WalkTodo(todo, nodes), VisitNode(acc, nodes, Head(todo)))

\* the try block: ast.parse raises SyntaxError before the loop starts
ParseCodeTry(src) ==
    IF src.ok
    THEN [exc |-> "none", value |-> WalkLoop(src.nodes, <<0>>, <<>>)]
    ELSE [exc |-> "SyntaxError", value |-> <<>>]

\* parse_code: value returned, exception propagated, diagnostic printed
parse_code_NoExcept(src) ==
    [exc |-> ParseCodeTry(src).exc, value |-> ParseCodeTry(src).value, diag |-> FALSE]
parse_code(src) ==
    LET r == ParseCodeTry(src)
    IN  IF r.exc = "SyntaxError"
        THEN [exc |-> "none", value |-> r.value, diag |-> TRUE]
        ELSE [exc |-> r.exc, value |-> r.value, diag |-> FALSE]

----------------------------------------------------------------------------
(* Inputs of the direct parser calls *)

Alphabet == {"#", " ", "a", "\n"}

TextsOf(n) == [1..n -> Alphabet]

Names == {"foo", "Bar"}

Docs == {PyNone, PyVal(<<"d">>)}

NodeLabels ==
    [kind : {"FunctionDef", "ClassDef", "AsyncFunctionDef"}, name : Names, doc : Docs]
    \cup {[kind |-> "Other", name |-> "", doc |-> PyNone]}

\* depth sequences of the ordered forests with n nodes, in pre-order
DepthSeqs(n) ==
    {d \in [1..n -> 1..n] :
        /\ n > 0 => d[1] = 1
        /\ \A i \in 1..(n - 1) : d[i + 1] <= d[i] + 1}

MkTree(n, d, l) ==
    [i \in 1..n |-> [depth |-> d[i], kind |-> l[i].kind,
                     name |-> l[i].name, doc |-> l[i].doc]]

InvalidSource == [ok |-> FALSE, nodes |-> <<>>]

ValidSource(t) == [ok |-> TRUE, nodes |-> t]

----------------------------------------------------------------------------
(* The pipeline at rest, as the parser specifications keep it *)

PipelineIdle ==
    /\ stage = "Idle"
    /\ responses = <<>>
    /\ repo_contents = <<>>
    /\ idx = 0
    /\ files_content = <<>>
    /\ staging = <<>>
    /\ contents = Unset
    /\ parsed_data = <<>>
    /\ tasks = <<>>
    /\ outputs = <<>>
    /\ result = Unset
    /\ printed = <<>>

----------------------------------------------------------------------------
(* SpecDoc: parse_documentation called on any text *)

InitDoc ==
    /\ PipelineIdle
    /\ \E n \in 0..MaxTextLen : doc_content \in TextsOf(n)
    /\ parsed_content = Unset
    /\ code_content = InvalidSource
    /\ parsed_code = Unset

CallParseDocumentation ==
    /\ parsed_content = Unset
    /\ parsed_content' = PyVal(parse_documentation(doc_content))
    /\ UNCHANGED <<doc_content, code_content, parsed_code>>
    /\ UNCHANGED pipelineVars

NextDoc == CallParseDocumentation

SpecDoc == InitDoc /\ [][NextDoc]_vars

----------------------------------------------------------------------------
(* SpecCode: parse_code called on any source *)

InitCode ==
    /\ PipelineIdle
    /\ doc_content = <<>>
    /\ parsed_content = Unset
    /\ \/ code_content = InvalidSource
       \/ \E n \in 0..MaxNodes : \E d \in DepthSeqs(n) : \E l \in [1..n -> NodeLabels] :
             code_content = ValidSource(MkTree(n, d, l))
    /\ parsed_code = Unset

CallParseCode ==
    /\ parsed_code = Unset
    /\ parsed_code' = PyVal(parse_code(code_content).value)
    /\ UNCHANGED <<doc_content, parsed_content, code_content>>
    /\ UNCHANGED pipelineVars

NextCode == CallParseCode

SpecCode == InitCode /\ [][NextCode]_vars

----------------------------------------------------------------------------
(* The pipeline: fetch_github_content, main, ingest_into_crewai *)

Last(s) == s[Len(s)]

\* name.endswith(suffix)
EndsWith(s, suffix) ==
    /\ Len(s) >= Len(suffix)
    /\ SubSeq(s, Len(s) - Len(suffix) + 1, Len(s)) = suffix

\* HTTP status codes the remote may answer with
Statuses == {200, 404}

\* response.raise_for_status() raises
raise_for_status_Never(status) == FALSE
raise_for_status(status) == status >= 400 /\ status < 600

\* entries a repository's top-level listing may hold; content is the
\* download's text together with what ast.parse makes of that text
ReadmeEntry ==
    [name |-> <<"a", ".", "m", "d">>, type |-> "file",
     content |-> [text |-> <<"#", " ", "a", "\n", "a">>, ast |-> InvalidSource]]

ModuleEntry ==
    [name |-> <<"m", ".", "p", "y">>, type |-> "file",
     content |-> [text |-> <<"a">>,
                  ast |-> ValidSource(<<[depth |-> 1, kind |-> "FunctionDef",
                                         name |-> "foo", doc |-> PyVal(<<"d">>)],
                                        [depth |-> 1, kind |-> "ClassDef",
                                         name |-> "Bar", doc |-> PyNone]>>)]]

BrokenEntry ==
    [name |-> <<"b", ".", "p", "y">>, type |-> "file",
     content |-> [text |-> <<"#">>, ast |-> InvalidSource]]

LicenseEntry ==
    [name |-> <<"L">>, type |-> "file",
     content |-> [text |-> <<" ">>, ast |-> InvalidSource]]

DirEntry ==
    [name |-> <<"d">>, type |-> "dir",
     content |-> [text |-> <<>>, ast |-> InvalidSource]]

RepoEntries == {ReadmeEntry, ModuleEntry, BrokenEntry, LicenseEntry, DirEntry}

\* a listing holds each name once
Listings ==
    {l \in UNION {[1..n -> RepoEntries] : n \in 0..MaxFiles} :
        \A i, j \in 1..Len(l) : i # j => l[i] # l[j]}

\* what the staging directory may hold before the run
OldStagings == {<<>>, << <<ReadmeEntry.name, <<"o">>>> >>}

\* open(join(destination_directory, name), "w").write(content)
WriteFile_KeepExisting(dir, item) ==
    IF DictHas(dir, item.name) THEN dir ELSE DictSet(dir, item.name, item.content.text)
WriteFile(dir, item) == DictSet(dir, item.name, item.content.text)

\* the loop that saves files_content
RECURSIVE WriteFiles(_, _)
WriteFiles(dir, files) ==
    IF Len(files) = 0 THEN dir
    ELSE WriteFiles(WriteFile(dir, Head(files)), Tail(files))

\* the download loop is over
DownloadsDone_AfterFirst(listing, i, files) == i > Len(listing) \/ Len(files) > 0
DownloadsDone(listing, i, files) == i > Len(listing)

\* the three tasks of one classified file
TasksFor_AnalystFirst(item) ==
    <<[description |-> <<"Analyze", item.name>>, agent |-> "documentation_analyst"],
      [description |-> <<"Formulate", item.name>>, agent |-> "inquiry_agent"],
      [description |-> <<"Provide", item.name>>, agent |-> "response_agent"]>>
TasksFor(item) ==
    IF item.type = "documentation"
    THEN <<[description |-> <<"Analyze", item.name>>, agent |-> "documentation_analyst"],
           [description |-> <<"Formulate", item.name>>, agent |-> "inquiry_agent"],
           [description |-> <<"Provide", item.name>>, agent |-> "response_agent"]>>
    ELSE IF item.type = "code"
    THEN <<[description |-> <<"Review", item.name>>, agent |-> "code_reviewer"],
           [description |-> <<"Formulate", item.name>>, agent |-> "inquiry_agent"],
           [description |-> <<"Provide", item.name>>, agent |-> "response_agent"]>>
    ELSE <<>>

\* the task-building loop
RECURSIVE BuildTasks(_)
BuildTasks(data) ==
    IF Len(data) = 0 THEN <<>>
    ELSE TasksFor(Head(data)) \o BuildTasks(Tail(data))

\* texts a task may produce
OutputTexts == {<<>>, <<"x">>}

\* Process.sequential: the task the crew runs next
NextTask(ts, outs) == ts[Len(outs) + 1]

\* the value crew.kickoff() returns: the results in task order
RECURSIVE Report(_)
Report(outs) ==
    IF Len(outs) = 0 THEN <<>>
    ELSE Head(outs).text \o Report(Tail(outs))

\* the value ingest_into_crewai returns from its except clause
IngestOnError_Partial(outs) == PyVal(Report(outs))
IngestOnError(outs) == PyNone

MsgCrewDone == "CrewAI tasks completed successfully."
MsgCrewError == "Error during CrewAI process"
MsgMainDone == "Repository contents processed and ingested into CrewAI successfully."
MsgMainFailed == "Failed to process repository contents with CrewAI."
MsgMainError == "Error processing repository"
MsgSyntaxError == "Syntax error in code"

\* main's `if result:` after ingest_into_crewai returned
MainReport(res) == IF Truthy(res) THEN MsgMainDone ELSE MsgMainFailed

Init ==
    /\ stage = "Idle"
    /\ responses = <<>>
    /\ repo_contents = <<>>
    /\ idx = 0
    /\ files_content = <<>>
    /\ staging \in OldStagings
    /\ contents = Unset
    /\ parsed_data = <<>>
    /\ tasks = <<>>
    /\ outputs = <<>>
    /\ result = Unset
    /\ printed = <<>>
    /\ doc_content = <<>>
    /\ parsed_content = Unset
    /\ code_content = InvalidSource
    /\ parsed_code = Unset

\* an exception reaches main's except clause
MainCatches ==
    /\ stage' = "Aborted"
    /\ printed' = Append(printed, MsgMainError)

\* main calls fetch_github_content
StartMain ==
    /\ stage = "Idle"
    /\ stage' = "Fetching"
    /\ UNCHANGED <<responses, repo_contents, idx, files_content, staging, contents,
                   parsed_data, tasks, outputs, result, printed>>
    /\ UNCHANGED parserVars

\* the listing call
ListingCall ==
    /\ stage = "Fetching"
    /\ idx = 0
    /\ \E status \in Statuses, listing \in Listings :
          /\ responses' = Append(responses, status)
          /\ IF raise_for_status(status)
             THEN /\ MainCatches
                  /\ UNCHANGED <<repo_contents, idx>>
             ELSE /\ repo_contents' = listing
                  /\ idx' = 1
                  /\ UNCHANGED <<stage, printed>>
    /\ UNCHANGED <<files_content, staging, contents, parsed_data, tasks, outputs, result>>
    /\ UNCHANGED parserVars

\* one iteration of the download loop on an entry of type "file"
DownloadFile ==
    /\ stage = "Fetching"
    /\ idx >= 1
    /\ ~DownloadsDone(repo_contents, idx, files_content)
    /\ repo_contents[idx].type = "file"
    /\ \E status \in Statuses :
          /\ responses' = Append(responses, status)
          /\ IF raise_for_status(status)
             THEN /\ MainCatches
                  /\ UNCHANGED <<idx, files_content>>
             ELSE /\ files_content' = Append(files_content, repo_contents[idx])
                  /\ idx' = idx + 1
                  /\ UNCHANGED <<stage, printed>>
    /\ UNCHANGED <<repo_contents, staging, contents, parsed_data, tasks, outputs, result>>
    /\ UNCHANGED parserVars

\* one iteration of the download loop on any other entry
SkipEntry ==
    /\ stage = "Fetching"
    /\ idx >= 1
    /\ ~DownloadsDone(repo_contents, idx, files_content)
    /\ repo_contents[idx].type # "file"
    /\ idx' = idx + 1
    /\ UNCHANGED <<stage, responses, repo_contents, files_content, staging, contents,
                   parsed_data, tasks, outputs, result, printed>>
    /\ UNCHANGED parserVars

\* the files are saved and fetch_github_content returns
SaveAndReturn ==
    /\ stage = "Fetching"
    /\ idx >= 1
    /\ DownloadsDone(repo_contents, idx, files_content)
    /\ staging' = WriteFiles(staging, files_content)
    /\ contents' = PyVal(files_content)
    /\ stage' = "Classifying"
    /\ idx' = 1
    /\ UNCHANGED <<responses, repo_contents, files_content, parsed_data, tasks,
                   outputs, result, printed>>
    /\ UNCHANGED parserVars

\* one iteration of main's loop over contents
ClassifyNext ==
    /\ stage = "Classifying"
    /\ idx <= Len(contents.val)
    /\ LET content == contents.val[idx]
           code == parse_code(content.content.ast)
       IN  IF EndsWith(content.name, <<".", "m", "d">>)
           THEN /\ parsed_data' = Append(parsed_data,
                       [type |-> "documentation",
                        content |-> parse_documentation(content.content.text),
                        name |-> content.name])
                /\ idx' = idx + 1
                /\ UNCHANGED <<stage, printed>>
           ELSE IF EndsWith(content.name, <<".", "p", "y">>)
           THEN IF code.exc # "none"
                THEN /\ MainCatches
                     /\ UNCHANGED <<parsed_data, idx>>
                ELSE /\ parsed_data' = Append(parsed_data,
                            [type |-> "code", content |-> code.value,
                             name |-> content.name])
                     /\ printed' = IF code.diag THEN Append(printed, MsgSyntaxError)
                                   ELSE printed
                     /\ idx' = idx + 1
                     /\ UNCHANGED stage
           ELSE /\ idx' = idx + 1
                /\ UNCHANGED <<stage, parsed_data, printed>>
    /\ UNCHANGED <<responses, repo_contents, files_content, staging, contents,
                   tasks, outputs, result>>
    /\ UNCHANGED parserVars

\* main calls ingest_into_crewai, which builds its four agents
EnterIngest ==
    /\ stage = "Classifying"
    /\ idx > Len(contents.val)
    /\ stage' = "Compiling"
    /\ UNCHANGED <<responses, repo_contents, idx, files_content, staging, contents,
                   parsed_data, tasks, outputs, result, printed>>
    /\ UNCHANGED parserVars

\* the task-building loop and the Crew
CompileTasks ==
    /\ stage = "Compiling"
    /\ tasks' = BuildTasks(parsed_data)
    /\ stage' = "Executing"
    /\ UNCHANGED <<responses, repo_contents, idx, files_content, staging, contents,
                   parsed_data, outputs, result, printed>>
    /\ UNCHANGED parserVars

\* crew.kickoff(): the next task produces its result
ExecuteTask ==
    /\ stage = "Executing"
    /\ Len(outputs) < Len(tasks)
    /\ \E text \in OutputTexts :
          outputs' = Append(outputs, [task |-> NextTask(tasks, outputs), text |-> text])
    /\ UNCHANGED <<stage, responses, repo_contents, idx, files_content, staging,
                   contents, parsed_data, tasks, result, printed>>
    /\ UNCHANGED parserVars

\* crew.kickoff(): the next task raises; ingest_into_crewai's except clause
\* returns, and main reports
TaskFails ==
    /\ stage = "Executing"
    /\ Len(outputs) < Len(tasks)
    /\ result' = IngestOnError(outputs)
    /\ printed' = printed \o <<MsgCrewError, MainReport(result')>>
    /\ stage' = "Aborted"
    /\ UNCHANGED <<responses, repo_contents, idx, files_content, staging, contents,
                   parsed_data, tasks, outputs>>
    /\ UNCHANGED parserVars

\* crew.kickoff() returns; ingest_into_crewai returns its value, and main reports
KickoffReturns ==
    /\ stage = "Executing"
    /\ Len(outputs) = Len(tasks)
    /\ result' = PyVal(Report(outputs))
    /\ printed' = printed \o <<MsgCrewDone, MainReport(result')>>
    /\ stage' = "Completed"
    /\ UNCHANGED <<responses, repo_contents, idx, files_content, staging, contents,
                   parsed_data, tasks, outputs>>
    /\ UNCHANGED parserVars

Next ==
    \/ StartMain
    \/ ListingCall
    \/ DownloadFile
    \/ SkipEntry
    \/ SaveAndReturn
    \/ ClassifyNext
    \/ EnterIngest
    \/ CompileTasks
    \/ ExecuteTask
    \/ TaskFails
    \/ KickoffReturns

Spec == Init /\ [][Next]_vars

----------------------------------------------------------------------------
(* Claims about the pipeline (Spec) *)

Printed(msg) == \E i \in 1..Len(printed) : printed[i] = msg

\* a non-success HTTP status
ErrorStatus(status) == status < 200 \/ status > 299

FetchFailed == \E i \in 1..Len(responses) : ErrorStatus(responses[i])

\* the task list has been built
TasksBuilt == stage \in {"Executing", "Completed"} \/ result # Unset

\* the entries of kind "file" of a listing, in listing order
RECURSIVE FilesOf(_)
FilesOf(listing) ==
    IF Len(listing) = 0 THEN <<>>
    ELSE IF Head(listing).type = "file" THEN <<Head(listing)>> \o FilesOf(Tail(listing))
    ELSE FilesOf(Tail(listing))

RolesOf(type) ==
    IF type = "documentation"
    THEN <<"documentation_analyst", "inquiry_agent", "response_agent">>
    ELSE <<"code_reviewer", "inquiry_agent", "response_agent">>

\* C1: N classified files give exactly 3N tasks; the k-th file's tasks are
\* the k-th block of three, with the roles of the file's type, and name
\* the k-th file.
C1_ThreeTasksPerFile ==
    TasksBuilt =>
        /\ Len(tasks) = 3 * Len(parsed_data)
        /\ \A k \in 1..Len(parsed_data) : \A r \in 1..3 :
              /\ tasks[3 * (k - 1) + r].agent = RolesOf(parsed_data[k].type)[r]
              /\ tasks[3 * (k - 1) + r].description[2] = parsed_data[k].name

\* three files of both types, compiled in order
C1_Witness ==
    /\ stage = "Executing"
    /\ Len(parsed_data) = 3
    /\ parsed_data[1].type = "code"
    /\ parsed_data[2].type = "documentation"
    /\ Len(tasks) = 9

C3_NoPartialResult ==
    Printed(MsgCrewError) =>
        /\ result = PyNone
        /\ ~Printed(MsgCrewDone)
        /\ ~Printed(MsgMainDone)

\* a task fails after two tasks produced text
C3_Witness ==
    /\ Printed(MsgCrewError)
    /\ Len(outputs) >= 2
    /\ \E i \in 1..Len(outputs) : outputs[i].text # <<>>

StageOrder ==
    {<<"Idle", "Fetching">>, <<"Fetching", "Classifying">>,
     <<"Classifying", "Compiling">>, <<"Compiling", "Executing">>,
     <<"Executing", "Completed">>}
    \cup ({"Idle", "Fetching", "Classifying", "Compiling", "Executing"} \X {"Aborted"})

C4_Step ==
    /\ stage' # stage => <<stage, stage'>> \in StageOrder
    \* classification starts only after the fetch returned every file
    /\ (stage' = "Classifying" /\ stage # "Classifying") =>
          /\ contents'.val = FilesOf(repo_contents)
          /\ parsed_data = <<>>
    /\ parsed_data' # parsed_data => (stage = "Classifying" /\ contents # Unset)
    \* compilation follows classification and precedes execution
    /\ tasks' # tasks => (stage = "Compiling" /\ idx > Len(contents.val) /\ outputs = <<>>)
    \* tasks run one at a time, in compiled order, with the task list fixed
    /\ outputs' # outputs =>
          /\ stage = "Executing"
          /\ tasks' = tasks
          /\ Len(outputs') = Len(outputs) + 1
          /\ SubSeq(outputs', 1, Len(outputs)) = outputs
          /\ Last(outputs').task = tasks[Len(outputs')]
    \* Completed only from Executing, after every task resolved
    /\ (stage' = "Completed" /\ stage # "Completed") =>
          (stage = "Executing" /\ Len(outputs) = Len(tasks))
    \* Aborted on an error
    /\ (stage' = "Aborted" /\ stage # "Aborted") =>
          (Last(printed') \in {MsgMainError, MsgMainFailed})

\* C4: the stages occur only in the order Idle, Fetching, Classifying,
\* Compiling, Executing; tasks run one at a time in compiled order; Completed
\* is entered only from Executing once every task has resolved; the other
\* terminal state, Aborted, is entered on an error from a non-terminal stage.
C4_StagesInOrder == [][C4_Step]_vars

\* a run through every stage with six tasks run
C4_Witness ==
    /\ stage = "Completed"
    /\ Len(outputs) = 6
    /\ Len(files_content) = 2
    /\ Len(repo_contents) = 3

SuccessReported == Printed(MsgCrewDone) \/ Printed(MsgMainDone)

FailureReported ==
    Printed(MsgCrewError) \/ Printed(MsgMainFailed) \/ Printed(MsgMainError)

\* C5: a finished run reports success or failure, never both, and a run
\* whose tasks all completed is not reported as failed.
C5_OneOutcome ==
    /\ ~(SuccessReported /\ FailureReported)
    /\ stage \in {"Completed", "Aborted"} => (SuccessReported \/ FailureReported)
    /\ stage = "Completed" => ~FailureReported

\* the contents entry a classified file was made from
SourceOf(item) == CHOOSE f \in {contents.val[i] : i \in 1..Len(contents.val)} :
                      f.name = item.name

IsClassified(f) == EndsWith(f.name, <<".", "m", "d">>) \/ EndsWith(f.name, <<".", "p", "y">>)

C10_State ==
    /\ contents # Unset =>
          \A i \in 1..Len(contents.val) :
              /\ DictHas(staging, contents.val[i].name)
              /\ DictGet(staging, contents.val[i].name) = contents.val[i].content.text
    /\ outputs # <<>> => contents # Unset

C10_Step ==
    /\ (\E i \in 1..Len(responses') : ErrorStatus(responses'[i])) => staging' = staging
    /\ staging' # staging =>
          /\ Len(responses) = 1 + Len(FilesOf(repo_contents))
          /\ outputs = <<>>

\* C10: the staging directory is written only after the listing call and
\* every download succeeded (a failed call leaves it as it was), and once
\* fetch_github_content has returned, which is before any task runs, every
\* returned file is in staging under its name.
C10_StagingWrittenLast == []C10_State /\ [][C10_Step]_vars

\* an old staged file was overwritten and the Documentation Analyst ran
C10_Witness ==
    /\ DictHas(staging, ReadmeEntry.name)
    /\ DictGet(staging, ReadmeEntry.name) = ReadmeEntry.content.text
    /\ Len(staging) >= 2
    /\ \E i \in 1..Len(outputs) : outputs[i].task.agent = "documentation_analyst"

----------------------------------------------------------------------------
(* Claims about parse_documentation (SpecDoc) *)

DocLines == Split(doc_content)

HeaderLineIdx == {i \in 1..Len(DocLines) : MatchesHeader(DocLines[i])}

\* a header line's text: the marker (the leading '#' run) and the
\* surrounding whitespace removed
HeaderTextOf(i) == Strip(LStrip(DocLines[i], {"#"}), Whitespace)

\* the lines after header line i up to the next header line or the end
SectionBodyOf(i) ==
    LET later == {j \in HeaderLineIdx : j > i}
        stop == IF later = {} THEN Len(DocLines) + 1
                ELSE CHOOSE j \in later : \A k \in later : j <= k
    IN  Join(SubSeq(DocLines, i + 1, stop - 1))

RECURSIVE FirstOccurrences(_, _)
FirstOccurrences(i, seen) ==
    IF i > Len(DocLines) THEN <<>>
    ELSE IF i \in HeaderLineIdx /\ HeaderTextOf(i) \notin seen
    THEN <<HeaderTextOf(i)>> \o FirstOccurrences(i + 1, seen \cup {HeaderTextOf(i)})
    ELSE FirstOccurrences(i + 1, seen)

\* C6: for a text with at least one ATX header line, the keys of the
\* returned mapping are the header texts in order of first occurrence and
\* each value is the body between such a header line and the next one
\* (also for a repeated, an empty or a '#'-terminated header text).
C6_SectionsAsClaimed ==
    (parsed_content # Unset /\ HeaderLineIdx # {}) =>
        /\ DictKeys(parsed_content.val) = FirstOccurrences(1, {})
        /\ \A n \in 1..Len(parsed_content.val) :
              \E i \in HeaderLineIdx :
                  /\ HeaderTextOf(i) = parsed_content.val[n][1]
                  /\ SectionBodyOf(i) = parsed_content.val[n][2]

----------------------------------------------------------------------------
(* Claims about parse_code (SpecCode) *)

CodeNodes == code_content.nodes

CodeParsed == parsed_code # Unset /\ code_content.ok

\* function definitions (def and async def) and class definitions
DefinitionIdx ==
    {i \in 1..Len(CodeNodes) :
        CodeNodes[i].kind \in {"FunctionDef", "AsyncFunctionDef", "ClassDef"}}

\* the definitions that are ast.FunctionDef or ast.ClassDef nodes
PlainDefinitionIdx ==
    {i \in 1..Len(CodeNodes) : CodeNodes[i].kind \in {"FunctionDef", "ClassDef"}}

\* the entry a definition should get
EntryOf(i) ==
    [type |-> IF CodeNodes[i].kind = "ClassDef" THEN "Class" ELSE "Function",
     docstring |-> CodeNodes[i].doc]

\* C7 as stated: one entry per function or class definition at any depth,
\* keyed by its name, with its kind and its docstring (or None).
C7_OneEntryPerDefinition ==
    CodeParsed =>
        /\ Len(parsed_code.val) = Cardinality(DefinitionIdx)
        /\ \A i \in DefinitionIdx :
              /\ DictHas(parsed_code.val, CodeNodes[i].name)
              /\ DictGet(parsed_code.val, CodeNodes[i].name) = EntryOf(i)

\* C7 (amended): the mapping has exactly one entry per distinct name of a
\* def (not async def) or class definition at any depth; each entry holds
\* the kind and docstring of a definition bearing that name; an async def
\* gets no entry of its own.
C7_OneEntryPerName ==
    CodeParsed =>
        /\ {parsed_code.val[n][1] : n \in 1..Len(parsed_code.val)}
              = {CodeNodes[i].name : i \in PlainDefinitionIdx}
        /\ Len(parsed_code.val) = Cardinality({CodeNodes[i].name : i \in PlainDefinitionIdx})
        /\ \A n \in 1..Len(parsed_code.val) :
              \E i \in PlainDefinitionIdx :
                  /\ CodeNodes[i].name = parsed_code.val[n][1]
                  /\ EntryOf(i) = parsed_code.val[n][2]

\* a nested class, a documented function and an async def, all parsed
C7_Witness ==
    /\ CodeParsed
    /\ Len(parsed_code.val) = 2
    /\ \E i, j, k \in 1..Len(CodeNodes) :
          /\ CodeNodes[i].kind = "ClassDef" /\ CodeNodes[i].depth = 2
          /\ CodeNodes[j].kind = "FunctionDef" /\ CodeNodes[j].doc # PyNone
          /\ CodeNodes[k].kind = "AsyncFunctionDef"

SameNameDefs(i) == {j \in PlainDefinitionIdx : CodeNodes[j].name = CodeNodes[i].name}

\* C9 as stated: of the definitions sharing a name, the one kept is the
\* last in declaration (depth-first pre-order) order.
C9_LastDeclaredWins ==
    CodeParsed =>
        \A i \in PlainDefinitionIdx :
            (\A j \in SameNameDefs(i) : j <= i) =>
                DictGet(parsed_code.val, CodeNodes[i].name) = EntryOf(i)

\* i is visited after j by a level-order walk
DeeperOrLater(i, j) ==
    \/ CodeNodes[i].depth > CodeNodes[j].depth
    \/ CodeNodes[i].depth = CodeNodes[j].depth /\ i >= j

\* C9 (amended): of the recorded definitions sharing a name, the one kept
\* is the last in breadth-first (level) order: the most deeply nested one,
\* and among those of equal depth the last declared.
C9_DeepestThenLastWins ==
    CodeParsed =>
        \A i \in PlainDefinitionIdx :
            (\A j \in SameNameDefs(i) : DeeperOrLater(i, j)) =>
                DictGet(parsed_code.val, CodeNodes[i].name) = EntryOf(i)

\* an earlier, deeper definition and a later, shallower one share a name
C9_Witness ==
    /\ CodeParsed
    /\ \E i, j \in PlainDefinitionIdx :
          /\ i < j
          /\ CodeNodes[i].name = CodeNodes[j].name
          /\ CodeNodes[i].depth > CodeNodes[j].depth
          /\ EntryOf(i) # EntryOf(j)
          /\ DictGet(parsed_code.val, CodeNodes[i].name) = EntryOf(i)

====
